---- MODULE Spec2Model ----
(***************************************************************************)
(* The dataset container of learning-lp (src/src_python/dataset.py): a     *)
(* pair of parallel arrays (RHS rows, solution values) with construct,     *)
(* cut, merge, copy, set_RHS, set_solutions, and its persistence (pickle,  *)
(* CSV in one file or in two).                                             *)
(*                                                                         *)
(* A numpy array is modelled as the sequence of its rows (a 2-D array: a   *)
(* sequence of equally long sequences; the 1-D array of solutions: a       *)
(* sequence of values).  np.array([]) is the empty sequence.  Floats are   *)
(* the integers of SolPool and of the entries of RowPool.                  *)
(***************************************************************************)
EXTENDS Integers, Sequences, FiniteSets, TLC

\* The largest number of samples a dataset or an input list holds.
MaxSize == 2

\* The RHS vectors the inputs are made of: two of dimension 1, two of dimension 2.
RowPool == {<<1>>, <<2>>, <<1, 2>>, <<2, 1>>}

\* The solution values the inputs are made of.
SolPool == {10, 20}

\* The caller's dataset objects.
Slots == {"A", "B"}

\* An argument that is no dataset instance (merge's first assertion).
NotADataset == "list"

\* An unbound caller variable.
None == [unbound |-> TRUE]

\* No object, in the record of a call.
NoSlot == "-"

\* The proportions given to cut, as fractions num/den.  All are dyadic, so that
\* proportion * size is exact in double precision for the sizes of the model.
Proportions ==
    { [num |-> 0, den |-> 1], [num |-> 1, den |-> 4], [num |-> 1, den |-> 2],
      [num |-> 3, den |-> 4], [num |-> 1, den |-> 1],
      [num |-> -1, den |-> 4], [num |-> -1, den |-> 1], [num |-> 3, den |-> 2] }

VARIABLES
    ds,     \* ds[s]: the dataset object of slot s (its two arrays), or None
    last,   \* the last call: its name, whether it returned, its arguments
    fs,     \* the files written so far: fs[name] is a file's content, or NoFile
    same    \* the fields whose array is one numpy object in both datasets

vars == <<ds, last, fs, same>>

-----------------------------------------------------------------------------
(* Arrays and inputs *)

SeqsUpTo(S, n) == UNION { [1..k -> S] : k \in 0..n }

Dims == { Len(r) : r \in RowPool }

\* The RHS vectors of the call sequences: one of each dimension.
BasicRows == {<<1>>, <<1, 2>>}

\* The 2-D tables of at most n rows of `rows` (all rows of one dimension), and
\* the empty list.
Tables(rows, n) ==
    UNION { SeqsUpTo({ r \in rows : Len(r) = d }, n) : d \in Dims }

\* The datasets a successful construction from the rows of `rows` gives.
Datasets(rows, n) ==
    { [RHS |-> R, solutions |-> S] :
        R \in Tables(rows, n), S \in SeqsUpTo(SolPool, n) } \cap
    { d \in [RHS : Tables(rows, n), solutions : SeqsUpTo(SolPool, n)] :
        Len(d.RHS) = Len(d.solutions) }

\* The lists of at most n solution values.
SolLists(n) == SeqsUpTo(SolPool, n)

\* The event recorded for a call.
Event(op, ok, self, other, arg) ==
    [op |-> op, ok |-> ok, self |-> self, other |-> other, arg |-> arg]

NoArg == <<>>

-----------------------------------------------------------------------------
(* class RHS, class solutions *)

\* RHS.size: len(self.content)
RHS_size(d) == Len(d.RHS)

\* solutions.size: len(self.content)
solutions_size(d) == Len(d.solutions)

\* dataset.size: the number of RHS rows
size(d) == RHS_size(d)

\* dataset.get_RHS, dataset.get_solutions
get_RHS(d) == d.RHS

get_solutions(d) == d.solutions

-----------------------------------------------------------------------------
(* dataset.__init__ *)

\* A plausible slip: only a shorter solutions list is rejected.
init_raises_only_shorter(R, S) == Len(S) < Len(R)

\* The assertion of __init__: s1 == s2.
init_raises(R, S) == Len(S) # Len(R)

\* dataset.__init__(RHS_list, solutions_list): both fields are assigned, and
\* then the sizes are compared.  obj is the object as __init__ leaves it,
\* whether or not the assertion fails.
dataset_init(R, S) ==
    [obj |-> [RHS |-> R, solutions |-> S], raised |-> init_raises(R, S)]

-----------------------------------------------------------------------------
(* dataset.set_RHS, dataset.set_solutions *)

\* A plausible slip: no length check.
set_RHS_unchecked(dsv, self, new_RHS) ==
    [ds |-> [dsv EXCEPT ![self].RHS = new_RHS], raised |-> FALSE]

\* dataset.set_RHS(new_RHS): asserts len(new_RHS) == self.size(), then
\* replaces the RHS array.
set_RHS(dsv, self, new_RHS) ==
    IF Len(new_RHS) # size(dsv[self])
    THEN [ds |-> dsv, raised |-> TRUE]
    ELSE [ds |-> [dsv EXCEPT ![self].RHS = new_RHS], raised |-> FALSE]

\* dataset.set_solutions(new_solutions): asserts len(new_solutions) ==
\* self.size(), then replaces the solutions array.
set_solutions(dsv, self, new_solutions) ==
    IF Len(new_solutions) # size(dsv[self])
    THEN [ds |-> dsv, raised |-> TRUE]
    ELSE [ds |-> [dsv EXCEPT ![self].solutions = new_solutions], raised |-> FALSE]

-----------------------------------------------------------------------------
(* dataset.cut *)

\* int(x) for x = a/b, b > 0: truncation towards zero.
IntTrunc(a, b) == IF a >= 0 THEN a \div b ELSE -((-a) \div b)

\* A plausible slip: rounding up.
number_to_cut_ceil(p, n) == IntTrunc(p.num * n + p.den - 1, p.den)

\* number_to_cut = int(proportion_to_cut * size)
number_to_cut(p, n) == IntTrunc(p.num * n, p.den)

\* np.random.choice(size, number_to_cut, replace=False) raises ValueError for a
\* negative count and for a count above the population; choice(0, 0) is empty.
choice_raises(n, k) == k < 0 \/ k > n

\* What np.random.choice(n, k, replace=False) can return: k distinct indices
\* of 0..n-1, in any order.
choice(n, k) ==
    { idx \in [1..k -> 0..(n - 1)] :
        \A i, j \in 1..k : i # j => idx[i] # idx[j] }

\* list_to_cut_bool: entry i is True iff index i was drawn.
list_to_cut_bool(n, idx) ==
    [i \in 0..(n - 1) |-> \E j \in 1..Len(idx) : idx[j] = i]

\* The loop over range(size): the entries of arr whose flag is `flag`, appended
\* in the order of their index.
RECURSIVE Collect(_, _, _, _)
Collect(arr, mask, flag, i) ==
    IF i >= Len(arr) THEN <<>>
    ELSE (IF mask[i] = flag THEN <<arr[i + 1]>> ELSE <<>>)
         \o Collect(arr, mask, flag, i + 1)

\* A plausible slip: the cut rows are taken in the order the indices were drawn.
rows_to_cut_sampled(arr, n, idx) == [j \in 1..Len(idx) |-> arr[idx[j] + 1]]

\* RHS_to_cut / solutions_to_cut: the flagged entries of arr.
rows_to_cut(arr, n, idx) == Collect(arr, list_to_cut_bool(n, idx), TRUE, 0)

\* RHS_to_keep / solutions_to_keep: the other entries of arr.
rows_to_keep(arr, n, idx) == Collect(arr, list_to_cut_bool(n, idx), FALSE, 0)

\* dataset.cut from the drawn indices on: self is re-initialised in place with
\* the kept rows, and a new dataset of the cut rows is built and bound to ret.
cut_with(dsv, self, ret, idx) ==
    LET n == size(dsv[self])
        kept == dataset_init(rows_to_keep(get_RHS(dsv[self]), n, idx),
                             rows_to_keep(get_solutions(dsv[self]), n, idx))
        new == dataset_init(rows_to_cut(get_RHS(dsv[self]), n, idx),
                            rows_to_cut(get_solutions(dsv[self]), n, idx))
        dsk == [dsv EXCEPT ![self] = kept.obj]
    IN  IF kept.raised \/ new.raised
        THEN [ds |-> dsk, raised |-> TRUE]
        ELSE [ds |-> [dsk EXCEPT ![ret] = new.obj], raised |-> FALSE]

-----------------------------------------------------------------------------
(* dataset.merge, dataset.copy *)

\* np.concatenate(..., axis=0) of two arrays of equal row shape.
concatenate(a, b) == a \o b

\* x[0] raises IndexError on an empty array.
first_row_raises(arr) == Len(arr) = 0

\* A plausible slip: the dimensions are not compared.
merge_no_dimension_check(dsv, self, other) ==
    IF other = NotADataset
    THEN [ds |-> dsv, raised |-> TRUE]
    ELSE LET r == dataset_init(concatenate(get_RHS(dsv[self]), get_RHS(dsv[other])),
                               concatenate(get_solutions(dsv[self]),
                                           get_solutions(dsv[other])))
         IN  [ds |-> [dsv EXCEPT ![self] = r.obj], raised |-> r.raised]

\* A plausible slip: the rows are moved out of the argument.
merge_moving(dsv, self, other) ==
    LET m == merge_no_dimension_check(dsv, self, other)
    IN  IF m.raised \/ other = self THEN m
        ELSE [ds |-> [m.ds EXCEPT ![other] = [RHS |-> <<>>, solutions |-> <<>>]],
              raised |-> FALSE]

\* A plausible slip: the dimensions are compared after self was re-initialised.
merge_checks_late(dsv, self, other) ==
    IF other = NotADataset
    THEN [ds |-> dsv, raised |-> TRUE]
    ELSE IF first_row_raises(get_RHS(dsv[other])) \/ first_row_raises(get_RHS(dsv[self]))
    THEN [ds |-> dsv, raised |-> TRUE]
    ELSE LET r == dataset_init(concatenate(get_RHS(dsv[self]), get_RHS(dsv[other])),
                               concatenate(get_solutions(dsv[self]),
                                           get_solutions(dsv[other])))
         IN  [ds |-> [dsv EXCEPT ![self] = r.obj],
              raised |-> \/ r.raised
                         \/ Len(get_RHS(dsv[other])[1]) # Len(get_RHS(dsv[self])[1])]

\* dataset.merge(other_dataset): the two assertions, the two concatenations,
\* and the re-initialisation of self in place.
merge(dsv, self, other) ==
    IF other = NotADataset
    THEN [ds |-> dsv, raised |-> TRUE]
    ELSE IF first_row_raises(get_RHS(dsv[other])) \/ first_row_raises(get_RHS(dsv[self]))
    THEN [ds |-> dsv, raised |-> TRUE]
    ELSE IF Len(get_RHS(dsv[other])[1]) # Len(get_RHS(dsv[self])[1])
    THEN [ds |-> dsv, raised |-> TRUE]
    ELSE LET r == dataset_init(concatenate(get_RHS(dsv[self]), get_RHS(dsv[other])),
                               concatenate(get_solutions(dsv[self]),
                                           get_solutions(dsv[other])))
         IN  [ds |-> [dsv EXCEPT ![self] = r.obj], raised |-> r.raised]

\* dataset.copy(): a new dataset of copies of the two arrays, bound to ret.
copy(dsv, self, ret) ==
    LET r == dataset_init(get_RHS(dsv[self]), get_solutions(dsv[self]))
    IN  IF r.raised THEN [ds |-> dsv, raised |-> TRUE]
        ELSE [ds |-> [dsv EXCEPT ![ret] = r.obj], raised |-> FALSE]

\* dataset.cut(proportion_to_cut), given the indices idx that the random draw
\* returns: nothing is touched when the draw raises.
cut(dsv, self, ret, p, idx) ==
    IF choice_raises(size(dsv[self]), number_to_cut(p, size(dsv[self])))
    THEN [ds |-> dsv, raised |-> TRUE]
    ELSE cut_with(dsv, self, ret, idx)

\* dataset.cut_the_first_one(): asserts a non-empty dataset, then cuts the
\* proportion 1 / size.  (1 / n) * n is exactly 1.0 in double precision for
\* every n below 49, so the fraction 1/n stands for the float.
cut_the_first_one(dsv, self, ret, idx) ==
    IF ~(size(dsv[self]) > 0)
    THEN [ds |-> dsv, raised |-> TRUE]
    ELSE cut(dsv, self, ret, [num |-> 1, den |-> size(dsv[self])], idx)

\* The draws np.random.choice can return inside cut(p) on dataset d.
draws(d, p) ==
    IF choice_raises(size(d), number_to_cut(p, size(d)))
    THEN {<<>>}
    ELSE choice(size(d), number_to_cut(p, size(d)))

-----------------------------------------------------------------------------
(* The callers' steps on the in-memory datasets *)

NoFile == [missing |-> TRUE]

\* The two arrays of a dataset: RHS.content and solutions.content.
Fields == {"RHS", "solutions"}

\* np.array(list), np.concatenate and the loaders allocate: a field that a
\* returning call assigns such an array to is no longer shared.
rebound(raised, fields) == IF raised THEN same ELSE same \ fields

\* A plausible slip: copy() passes the arrays of self on as they are.
copy_shares_by_reference(fields) == fields

\* The fields of s.copy() that are the very arrays of s: np.copy allocates.
copy_shares(fields) == {}

FileNames == {"d.pkl", "d.csv", "d_RHS.csv", "d_sol.csv", "table.csv"}

Init ==
    /\ ds = [s \in Slots |-> None]
    /\ last = Event("none", TRUE, NoSlot, NoSlot, NoArg)
    /\ fs = [f \in FileNames |-> NoFile]
    /\ same = {}

\* s = dataset(R, S), for a variable not bound yet: it is bound only if the
\* constructor returns.  (A bound variable is rebound by cut and copy.)
Construct(s, R, S) ==
    LET r == dataset_init(R, S)
    IN  /\ ds[s] = None
        /\ ds' = IF r.raised THEN ds ELSE [ds EXCEPT ![s] = r.obj]
        /\ last' = Event("construct", ~r.raised, s, NoSlot,
                         [lenR |-> Len(R), lenS |-> Len(S)])
        /\ same' = rebound(r.raised, Fields)
        /\ UNCHANGED fs

\* r = s.cut(p)
Cut(s, r, p) ==
    /\ ds[s] # None
    /\ r # s
    /\ \E idx \in draws(ds[s], p) :
          LET c == cut(ds, s, r, p, idx)
          IN  /\ ds' = c.ds
              /\ last' = Event("cut", ~c.raised, s, r, [p |-> p, idx |-> idx])
              /\ same' = rebound(c.raised, Fields)
    /\ UNCHANGED fs

\* r = s.cut_the_first_one()
CutTheFirstOne(s, r) ==
    /\ ds[s] # None
    /\ r # s
    /\ LET p == [num |-> 1, den |-> IF size(ds[s]) > 0 THEN size(ds[s]) ELSE 1]
       IN  \E idx \in (IF size(ds[s]) > 0 THEN draws(ds[s], p) ELSE {<<>>}) :
             LET c == cut_the_first_one(ds, s, r, idx)
             IN  /\ ds' = c.ds
                 /\ last' = Event("cut_the_first_one", ~c.raised, s, r,
                                  [p |-> p, idx |-> idx])
                 /\ same' = rebound(c.raised, Fields)
    /\ UNCHANGED fs

\* s.merge(o), o a dataset object (possibly s itself) or something else.
Merge(s, o) ==
    /\ ds[s] # None
    /\ o \in Slots => /\ ds[o] # None
                      /\ size(ds[s]) + size(ds[o]) <= MaxSize
    /\ LET m == merge(ds, s, o)
       IN  /\ ds' = m.ds
           /\ last' = Event("merge", ~m.raised, s, o, NoArg)
           /\ same' = rebound(m.raised, Fields)
    /\ UNCHANGED fs

\* r = s.copy()
Copy(s, r) ==
    /\ ds[s] # None
    /\ r # s
    /\ LET c == copy(ds, s, r)
       IN  /\ ds' = c.ds
           /\ last' = Event("copy", ~c.raised, s, r, NoArg)
           /\ same' = IF c.raised THEN same ELSE copy_shares(Fields)
    /\ UNCHANGED fs

\* s.set_RHS(new_RHS)
SetRHS(s, new_RHS) ==
    /\ ds[s] # None
    /\ LET c == set_RHS(ds, s, new_RHS)
       IN  /\ ds' = c.ds
           /\ last' = Event("set_RHS", ~c.raised, s, NoSlot, [len |-> Len(new_RHS)])
           /\ same' = rebound(c.raised, {"RHS"})
    /\ UNCHANGED fs

\* s.set_solutions(new_solutions)
SetSolutions(s, new_solutions) ==
    /\ ds[s] # None
    /\ LET c == set_solutions(ds, s, new_solutions)
       IN  /\ ds' = c.ds
           /\ last' = Event("set_solutions", ~c.raised, s, NoSlot,
                            [len |-> Len(new_solutions)])
           /\ same' = rebound(c.raised, {"solutions"})
    /\ UNCHANGED fs

Next ==
    \/ \E s \in Slots, R \in Tables(BasicRows, MaxSize), S \in SolLists(MaxSize) :
          Construct(s, R, S)
    \/ \E s, r \in Slots, p \in Proportions : Cut(s, r, p)
    \/ \E s, r \in Slots : CutTheFirstOne(s, r)
    \/ \E s \in Slots, o \in Slots \cup {NotADataset} : Merge(s, o)
    \/ \E s, r \in Slots : Copy(s, r)
    \/ \E s \in Slots, R \in Tables(BasicRows, MaxSize) : SetRHS(s, R)
    \/ \E s \in Slots, S \in SolLists(MaxSize) : SetSolutions(s, S)

Spec == Init /\ [][Next]_vars

-----------------------------------------------------------------------------
(* cut on its own: the dataset is drawn from every table of RowPool *)

InitCut ==
    /\ ds \in { [s \in Slots |-> IF s = "A" THEN d ELSE None] :
                  d \in Datasets(RowPool, MaxSize) }
    /\ last = Event("none", TRUE, NoSlot, NoSlot, NoArg)
    /\ fs = [f \in FileNames |-> NoFile]
    /\ same = {}

NextCut ==
    \/ \E s, r \in Slots, p \in Proportions : Cut(s, r, p)
    \/ \E s, r \in Slots : CutTheFirstOne(s, r)

SpecCut == InitCut /\ [][NextCut]_vars

-----------------------------------------------------------------------------
(* Properties of the in-memory operations *)

Bound(s) == ds[s] # None

\* C1: every existing dataset holds as many RHS rows as solution values, after
\* any sequence of successful or failed calls.
C1_SizesAgree ==
    \A s \in Slots : Bound(s) => Len(ds[s].RHS) = Len(ds[s].solutions)

\* C1's case: a call on an existing, non-empty dataset has just failed, and
\* both datasets exist.
C1_Witness ==
    /\ last.op \in {"set_RHS", "set_solutions", "merge", "cut"}
    /\ ~last.ok
    /\ \A s \in Slots : Bound(s)
    /\ Len(ds[last.self].RHS) >= 1

\* C2: constructing from R and S fails exactly when len(R) # len(S); a
\* successful construction holds len(R) rows and len(S) solutions.
C2_ConstructChecksLengths ==
    last.op = "construct" =>
        /\ last.ok <=> (last.arg.lenR = last.arg.lenS)
        /\ last.ok => /\ Bound(last.self)
                      /\ Len(ds[last.self].RHS) = last.arg.lenR
                      /\ Len(ds[last.self].solutions) = last.arg.lenS

\* C2's case: a construction with more solutions than rows was rejected.
C2_Witness ==
    /\ last.op = "construct"
    /\ ~last.ok
    /\ last.arg.lenS > last.arg.lenR

CutOps == {"cut", "cut_the_first_one"}

\* The call recorded in ev, made on dataset d, has called cut:
\* cut_the_first_one calls it on a non-empty dataset only.
CutCalled(ev, d) ==
    \/ ev.op = "cut"
    \/ ev.op = "cut_the_first_one" /\ Len(d.RHS) > 0

\* p lies in [0, 1]
InUnitInterval(p) == p.num >= 0 /\ p.num <= p.den

\* The number of samples of d equal to the pair x = <<RHS row, solution>>.
CountPair(d, x) ==
    Cardinality({ i \in 1..Len(d.RHS) : <<d.RHS[i], d.solutions[i]>> = x })

PairsOf(d) == { <<d.RHS[i], d.solutions[i]>> : i \in 1..Len(d.RHS) }

\* C3: cut(p) with p in [0, 1] on a dataset of size N returns a dataset of
\* floor(p * N) samples and leaves N - floor(p * N) in self, and the two hold
\* together exactly the original (RHS row, solution) pairs, each as often as
\* the original did.
C3_CutPartitions ==
    [][ (CutCalled(last', ds[last'.self]) /\ InUnitInterval(last'.arg.p)) =>
          LET d == ds[last'.self]
              n == Len(d.RHS)
              k == (last'.arg.p.num * n) \div last'.arg.p.den
              kept == ds'[last'.self]
              new == ds'[last'.other]
          IN  /\ last'.ok
              /\ Len(new.RHS) = k /\ Len(new.solutions) = k
              /\ Len(kept.RHS) = n - k /\ Len(kept.solutions) = n - k
              /\ \A x \in PairsOf(d) \cup PairsOf(kept) \cup PairsOf(new) :
                    CountPair(kept, x) + CountPair(new, x) = CountPair(d, x)
      ]_vars

\* C3's case: cut(1/2) has split a dataset into two non-empty ones.
C3_Witness ==
    /\ last.op = "cut"
    /\ last.ok
    /\ last.arg.p = [num |-> 1, den |-> 2]
    /\ Len(ds[last.self].RHS) >= 1
    /\ Len(ds[last.other].RHS) >= 1

\* The entries of arr at the indices of the set S, by increasing index.
RECURSIVE PickInOrder(_, _)
PickInOrder(arr, S) ==
    IF S = {} THEN <<>>
    ELSE LET m == CHOOSE i \in S : \A j \in S : i >= j
         IN  Append(PickInOrder(arr, S \ {m}), arr[m + 1])

Drawn(idx) == { idx[j] : j \in 1..Len(idx) }

\* C10 as stated: the returned rows are in the order in which their indices
\* were drawn, and self keeps the other rows in their original order.
C10_ReturnedInDrawOrder ==
    [][ (last'.op \in CutOps /\ last'.ok) =>
          LET d == ds[last'.self]
              idx == last'.arg.idx
              rest == (0..(Len(d.RHS) - 1)) \ Drawn(idx)
          IN  /\ ds'[last'.other].RHS = [j \in 1..Len(idx) |-> d.RHS[idx[j] + 1]]
              /\ ds'[last'.other].solutions =
                    [j \in 1..Len(idx) |-> d.solutions[idx[j] + 1]]
              /\ ds'[last'.self].RHS = PickInOrder(d.RHS, rest)
              /\ ds'[last'.self].solutions = PickInOrder(d.solutions, rest)
      ]_vars

\* C10 amended: the returned rows are in their original relative order,
\* whatever the order in which their indices were drawn, and self keeps the
\* other rows in their original relative order.
C10_ReturnedInOriginalOrder ==
    [][ (last'.op \in CutOps /\ last'.ok) =>
          LET d == ds[last'.self]
              idx == last'.arg.idx
              rest == (0..(Len(d.RHS) - 1)) \ Drawn(idx)
          IN  /\ ds'[last'.other].RHS = PickInOrder(d.RHS, Drawn(idx))
              /\ ds'[last'.other].solutions = PickInOrder(d.solutions, Drawn(idx))
              /\ ds'[last'.self].RHS = PickInOrder(d.RHS, rest)
              /\ ds'[last'.self].solutions = PickInOrder(d.solutions, rest)
      ]_vars

\* C10's case: two indices were drawn in decreasing order, and the two rows
\* returned differ.
C10_Witness ==
    /\ last.op = "cut"
    /\ last.ok
    /\ Len(last.arg.idx) >= 2
    /\ last.arg.idx[1] > last.arg.idx[2]
    /\ ds[last.other].RHS[1] # ds[last.other].RHS[2]

\* Every RHS row of a has the length of every RHS row of b (of two datasets
\* of which one has no rows, this holds).
SameDimension(a, b) ==
    \A i \in 1..Len(a.RHS), j \in 1..Len(b.RHS) : Len(a.RHS[i]) = Len(b.RHS[j])

\* C4 as stated: a.merge(b) on two datasets of the same RHS dimension, an
\* emptied one included, succeeds and leaves in a its samples followed by b's.
C4_MergeConcatenates ==
    [][ (/\ last'.op = "merge"
         /\ last'.other \in Slots
         /\ SameDimension(ds[last'.self], ds[last'.other])) =>
          /\ last'.ok
          /\ ds'[last'.self].RHS = ds[last'.self].RHS \o ds[last'.other].RHS
          /\ ds'[last'.self].solutions =
                ds[last'.self].solutions \o ds[last'.other].solutions
      ]_vars

Rectangular(d) == SameDimension(d, d)

\* Some RHS row of a and some RHS row of b differ in length.
DimensionsDiffer(a, b) == ~SameDimension(a, b)

\* C6: a.merge(b) fails, and changes nothing, when b is no dataset and when
\* the RHS dimensions of a and b differ; after a merge no dataset holds RHS
\* rows of different lengths.
C6_MergeRejectsMismatch ==
    [][ last'.op = "merge" =>
          /\ (\/ last'.other = NotADataset
              \/ DimensionsDiffer(ds[last'.self], ds[last'.other]))
                => (~last'.ok /\ ds' = ds)
          /\ \A s \in Slots : ds'[s] # None => Rectangular(ds'[s])
      ]_vars

\* C6's case: a merge of a dataset of another dimension was rejected.
C6_Witness ==
    /\ last.op = "merge"
    /\ ~last.ok
    /\ last.other \in Slots
    /\ DimensionsDiffer(ds[last.self], ds[last.other])

-----------------------------------------------------------------------------
(* Files: csv.writer, csv.reader, pickle *)

\* The text csv.writer writes for a float (str, which float() reads back to
\* the same value), and a delimiter character.
Num(x) == [num |-> x]

Sep(c) == [sep |-> c]

\* csv.writer(file, delimiter=c).writerow(row): the fields, c between them.
RECURSIVE csv_writerow(_, _)
csv_writerow(row, c) ==
    IF Len(row) = 0 THEN <<>>
    ELSE IF Len(row) = 1 THEN <<Num(row[1])>>
    ELSE <<Num(row[1]), Sep(c)>> \o csv_writerow(Tail(row), c)

csv_writerows(rows, c) == [i \in 1..Len(rows) |-> csv_writerow(rows[i], c)]

\* A row of csv.reader(file, delimiter=c): the line split at every c.  Any
\* other character, another delimiter included, stays in its field.
RECURSIVE csv_split(_, _, _)
csv_split(line, c, field) ==
    IF Len(line) = 0 THEN <<field>>
    ELSE IF Head(line) = Sep(c)
    THEN <<field>> \o csv_split(Tail(line), c, <<>>)
    ELSE csv_split(Tail(line), c, Append(field, Head(line)))

csv_reader_row(line, c) == IF Len(line) = 0 THEN <<>> ELSE csv_split(line, c, <<>>)

\* float(e) raises ValueError unless e is the text of one number.
float_raises(e) == ~(Len(e) = 1 /\ "num" \in DOMAIN e[1])

float(e) == e[1].num

\* [float(e) for e in row] raises if one float(e) does.
row_raises(row) == \E i \in 1..Len(row) : float_raises(row[i])

floats(row) == [i \in 1..Len(row) |-> float(row[i])]

\* The delimiter RHS.save_csv, solutions.save_csv and to_csv give csv.writer.
WriterDelimiter == ";"

\* The delimiter of csv.reader(file), no delimiter given.
ReaderDelimiter == ","

\* RHS.save_csv: one line per RHS row.
RHS_save_csv(content) == [lines |-> csv_writerows(content, WriterDelimiter)]

\* self.content.reshape(-1, 1): one row per solution.
reshape_column(content) == [i \in 1..Len(content) |-> <<content[i]>>]

\* solutions.save_csv: one line per solution.
solutions_save_csv(content) ==
    [lines |-> csv_writerows(reshape_column(content), WriterDelimiter)]

\* dataset.to_csv(name, single_file): one file name.csv of the RHS rows with
\* the solution appended (np.concatenate along axis 1 raises on the 1-D array
\* of an empty dataset, before any file is opened), or the two files
\* name_RHS.csv and name_sol.csv.
to_csv(fsv, d, name, single_file) ==
    IF single_file
    THEN IF Len(get_RHS(d)) = 0
         THEN [fs |-> fsv, raised |-> TRUE]
         ELSE LET content == [i \in 1..size(d) |->
                                 get_RHS(d)[i] \o reshape_column(get_solutions(d))[i]]
              IN  [fs |-> [fsv EXCEPT ![name \o ".csv"] =
                              [lines |-> csv_writerows(content, WriterDelimiter)]],
                   raised |-> FALSE]
    ELSE [fs |-> [fsv EXCEPT ![(name \o "_RHS") \o ".csv"] = RHS_save_csv(get_RHS(d)),
                             ![(name \o "_sol") \o ".csv"] =
                                 solutions_save_csv(get_solutions(d))],
          raised |-> FALSE]

\* A plausible slip: the last sample is left out of the dump.
pickled_pair_without_last(d) ==
    <<SubSeq(get_RHS(d), 1, Len(get_RHS(d)) - 1),
      SubSeq(get_solutions(d), 1, Len(get_solutions(d)) - 1)>>

\* set = (self.RHS.get_RHS(), self.solutions.get_solutions())
pickled_pair(d) == <<get_RHS(d), get_solutions(d)>>

\* dataset.dump_in_file(file_name): pickles the pair of arrays.
dump_in_file(fsv, d, file_name) ==
    [fs |-> [fsv EXCEPT ![file_name] = [pickled |-> pickled_pair(d)]],
     raised |-> FALSE]

NoObject == [obj |-> None, raised |-> TRUE]

\* load_pickle(file_name): open raises on a missing file, pickle.load on a
\* file that holds no pickle; then dataset(set[0], set[1]).
load_pickle(fsv, file_name) ==
    IF fsv[file_name] = NoFile \/ "pickled" \notin DOMAIN fsv[file_name]
    THEN NoObject
    ELSE dataset_init(fsv[file_name].pickled[1], fsv[file_name].pickled[2])

\* A file csv.reader can read.
readable(fsv, file) == fsv[file] # NoFile /\ "lines" \in DOMAIN fsv[file]

\* The rows csv.reader yields for the file.
csv_rows(fsv, file) ==
    [i \in 1..Len(fsv[file].lines) |->
        csv_reader_row(fsv[file].lines[i], ReaderDelimiter)]

\* load_csv(file_RHS, file_sol): every field of every RHS line is read as a
\* float; the first field of every solution line is.
load_csv(fsv, file_RHS, file_sol) ==
    IF ~readable(fsv, file_RHS) THEN NoObject
    ELSE LET rows_RHS == csv_rows(fsv, file_RHS)
         IN  IF \E i \in 1..Len(rows_RHS) : row_raises(rows_RHS[i]) THEN NoObject
             ELSE IF ~readable(fsv, file_sol) THEN NoObject
             ELSE LET rows_sol == csv_rows(fsv, file_sol)
                  IN  IF \E i \in 1..Len(rows_sol) :
                            \/ Len(rows_sol[i]) = 0
                            \/ float_raises(rows_sol[i][1])
                      THEN NoObject
                      ELSE dataset_init(
                              [i \in 1..Len(rows_RHS) |-> floats(rows_RHS[i])],
                              [i \in 1..Len(rows_sol) |-> float(rows_sol[i][1])])

\* load_csv_single_file(file): RHS_list = content[:-1], solutions = content[-1]
\* (IndexError on an empty file).
load_csv_single_file(fsv, file) ==
    IF ~readable(fsv, file) THEN NoObject
    ELSE LET rows == csv_rows(fsv, file)
         IN  IF \E i \in 1..Len(rows) : row_raises(rows[i]) THEN NoObject
             ELSE LET content == [i \in 1..Len(rows) |-> floats(rows[i])]
                  IN  IF Len(content) = 0 THEN NoObject
                      ELSE dataset_init(SubSeq(content, 1, Len(content) - 1),
                                        content[Len(content)])

-----------------------------------------------------------------------------
(* Saving dataset A and loading into B *)

\* The float table of a dataset: row i is RHS row i with solution i appended.
TableOf(d) == [i \in 1..Len(d.RHS) |-> d.RHS[i] \o <<d.solutions[i]>>]

\* A comma-separated file of a float table, as a user supplies it.
CommaFile(table) == [lines |-> csv_writerows(table, ",")]

\* A holds any dataset; table.csv is its float table, comma-separated.
InitIO ==
    /\ ds \in { [s \in Slots |-> IF s = "A" THEN d ELSE None] :
                  d \in Datasets(RowPool, MaxSize) }
    /\ last = Event("none", TRUE, NoSlot, NoSlot, NoArg)
    /\ fs = [f \in FileNames |->
               IF f = "table.csv" THEN CommaFile(TableOf(ds["A"])) ELSE NoFile]
    /\ same = {}

\* A.dump_in_file("d.pkl")
DumpInFile(s, file_name) ==
    /\ ds[s] # None
    /\ LET c == dump_in_file(fs, ds[s], file_name)
       IN  /\ fs' = c.fs
           /\ last' = Event("dump_in_file", ~c.raised, s, NoSlot, [file |-> file_name])
    /\ UNCHANGED <<ds, same>>

\* A.to_csv("d", single_file=single_file)
ToCsv(s, name, single_file) ==
    /\ ds[s] # None
    /\ LET c == to_csv(fs, ds[s], name, single_file)
       IN  /\ fs' = c.fs
           /\ last' = Event("to_csv", ~c.raised, s, NoSlot,
                            [name |-> name, single_file |-> single_file])
    /\ UNCHANGED <<ds, same>>

\* r = load_pickle(file_name)
LoadPickle(r, file_name) ==
    LET c == load_pickle(fs, file_name)
    IN  /\ ds' = IF c.raised THEN ds ELSE [ds EXCEPT ![r] = c.obj]
        /\ last' = Event("load_pickle", ~c.raised, NoSlot, r, [file |-> file_name])
        /\ same' = rebound(c.raised, Fields)
        /\ UNCHANGED fs

\* r = load_csv(file_RHS, file_sol)
LoadCsv(r, file_RHS, file_sol) ==
    LET c == load_csv(fs, file_RHS, file_sol)
    IN  /\ ds' = IF c.raised THEN ds ELSE [ds EXCEPT ![r] = c.obj]
        /\ last' = Event("load_csv", ~c.raised, NoSlot, r,
                         [file_RHS |-> file_RHS, file_sol |-> file_sol])
        /\ same' = rebound(c.raised, Fields)
        /\ UNCHANGED fs

\* r = load_csv_single_file(file)
LoadCsvSingleFile(r, file) ==
    LET c == load_csv_single_file(fs, file)
    IN  /\ ds' = IF c.raised THEN ds ELSE [ds EXCEPT ![r] = c.obj]
        /\ last' = Event("load_csv_single_file", ~c.raised, NoSlot, r, [file |-> file])
        /\ same' = rebound(c.raised, Fields)
        /\ UNCHANGED fs

\* The files the loaders are given: those the dataset's methods write, and the
\* user's table.
NextIO ==
    \/ DumpInFile("A", "d.pkl")
    \/ \E single_file \in BOOLEAN : ToCsv("A", "d", single_file)
    \/ \E file_name \in {"d.pkl", "table.csv"} : LoadPickle("B", file_name)
    \/ \E file_RHS \in {"d_RHS.csv", "table.csv"}, file_sol \in {"d_sol.csv", "table.csv"} :
          LoadCsv("B", file_RHS, file_sol)
    \/ \E file \in {"d.csv", "table.csv"} : LoadCsvSingleFile("B", file)

SpecIO == InitIO /\ [][NextIO]_vars

-----------------------------------------------------------------------------
(* Properties of saving and loading *)

\* C7 as stated: load_csv of the two files A.to_csv("d", single_file=False)
\* wrote succeeds and gives a dataset with A's RHS rows and solutions.
C7_TwoFileRoundTrip ==
    (/\ last.op = "load_csv"
     /\ last.arg.file_RHS = "d_RHS.csv"
     /\ last.arg.file_sol = "d_sol.csv"
     /\ fs["d_RHS.csv"] # NoFile
     /\ fs["d_sol.csv"] # NoFile) =>
        /\ last.ok
        /\ ds[last.other].RHS = ds["A"].RHS
        /\ ds[last.other].solutions = ds["A"].solutions

\* C8: dump_in_file leaves the dataset as it was, and load_pickle of the file
\* it wrote succeeds and gives a dataset with equal RHS and solutions arrays.
C8_PickleRoundTrip ==
    [][ /\ last'.op = "dump_in_file" => (last'.ok /\ ds' = ds)
        /\ (/\ last'.op = "load_pickle"
            /\ last'.arg.file = "d.pkl"
            /\ fs["d.pkl"] # NoFile) =>
              /\ last'.ok
              /\ ds'[last'.other].RHS = ds["A"].RHS
              /\ ds'[last'.other].solutions = ds["A"].solutions
              /\ ds'["A"] = ds["A"]
      ]_vars

\* C8's case: a dumped dataset of two samples was loaded back.
C8_Witness ==
    /\ last.op = "load_pickle"
    /\ last.ok
    /\ Len(ds[last.other].RHS) >= 2
    /\ ds["A"].RHS[1] # ds["A"].RHS[2]

\* C9 as stated: load_csv_single_file of a float table of n >= 1 rows and
\* d + 1 columns (comma-separated, or as to_csv(single_file=True) wrote it)
\* gives n samples, sample i being the first d entries of row i with the last
\* entry of row i as its solution.
C9_LastColumnIsSolution ==
    (/\ last.op = "load_csv_single_file"
     /\ last.arg.file \in {"table.csv", "d.csv"}
     /\ fs[last.arg.file] # NoFile
     /\ Len(TableOf(ds["A"])) >= 1) =>
        LET table == TableOf(ds["A"])
        IN  /\ last.ok
            /\ Len(ds[last.other].RHS) = Len(table)
            /\ Len(ds[last.other].solutions) = Len(table)
            /\ \A i \in 1..Len(table) :
                  /\ ds[last.other].RHS[i] = SubSeq(table[i], 1, Len(table[i]) - 1)
                  /\ ds[last.other].solutions[i] = table[i][Len(table[i])]

-----------------------------------------------------------------------------
(* Failed calls *)

\* int(p * n) is negative or above n, for p = num/den.
DrawOutOfRange(p, n) ==
    \/ p.num * n <= -p.den
    \/ p.num * n >= (n + 1) * p.den

\* C12 as stated: a cut with a proportion outside [0, 1], a rejected merge,
\* and a set_RHS / set_solutions of a sequence of another length than size()
\* raise and leave self as it was.
C12_OutsideUnitIntervalRaises ==
    [][ LET ev == last'
            d == ds[ev.self]
        IN  /\ (CutCalled(ev, d) /\ ~InUnitInterval(ev.arg.p)) =>
                  (~ev.ok /\ ds'[ev.self] = d)
            /\ (ev.op = "merge" /\ ~ev.ok) => ds'[ev.self] = d
            /\ (ev.op \in {"set_RHS", "set_solutions"} /\ ev.arg.len # Len(d.RHS)) =>
                  (~ev.ok /\ ds'[ev.self] = d)
      ]_vars

\* C12 amended: a cut whose number of indices to draw, int(p * size), is
\* negative or exceeds the size, a rejected merge, and a set_RHS /
\* set_solutions of a sequence of another length than size() raise and leave
\* self as it was.
C12_FailedCallsChangeNothing ==
    [][ LET ev == last'
            d == ds[ev.self]
        IN  /\ (CutCalled(ev, d) /\ DrawOutOfRange(ev.arg.p, Len(d.RHS))) =>
                  (~ev.ok /\ ds'[ev.self] = d)
            /\ (ev.op = "merge" /\ ~ev.ok) => ds'[ev.self] = d
            /\ (ev.op \in {"set_RHS", "set_solutions"} /\ ev.arg.len # Len(d.RHS)) =>
                  (~ev.ok /\ ds'[ev.self] = d)
      ]_vars

\* C12's case: a cut of a proportion above 1 on a non-empty dataset has raised.
C12_Witness ==
    /\ last.op = "cut"
    /\ ~last.ok
    /\ last.arg.p.num > last.arg.p.den
    /\ Len(ds[last.self].RHS) >= 1

-----------------------------------------------------------------------------
(* copy, and what a caller can do to the copy and to the original *)

\* The other one of the two datasets.
Other(s) == IF s = "A" THEN "B" ELSE "A"

\* The value the in-place writes store in an RHS row / in the solutions.
WrittenCoefficient == 2
WrittenSolution == 20

\* The lists the setters are given in the calls after a copy.
RowLists(n) == SeqsUpTo({<<2>>}, n)
ValueLists(n) == SeqsUpTo({WrittenSolution}, n)

\* An assignment to the array of field f of s is seen through every field
\* that is this very array.
assign(dsv, s, f, arr) ==
    [x \in Slots |->
        IF x = s \/ (f \in same /\ dsv[x] # None)
        THEN [dsv[x] EXCEPT ![f] = arr]
        ELSE dsv[x]]

InitCopy ==
    /\ ds \in { [s \in Slots |-> IF s = "A" THEN d ELSE None] :
                  d \in Datasets({<<1>>}, MaxSize) }
    /\ last = Event("none", TRUE, NoSlot, NoSlot, NoArg)
    /\ fs = [f \in FileNames |-> NoFile]
    /\ same = {}

\* s.cut(p), the returned dataset dropped.
CutAway(s, p) ==
    /\ ds[s] # None /\ ds[Other(s)] # None
    /\ \E idx \in draws(ds[s], p) :
          LET c == cut([x \in Slots \cup {NoSlot} |->
                          IF x \in Slots THEN ds[x] ELSE None],
                       s, NoSlot, p, idx)
          IN  /\ ds' = [x \in Slots |-> c.ds[x]]
              /\ last' = Event("cut", ~c.raised, s, NoSlot, [p |-> p, idx |-> idx])
              /\ same' = rebound(c.raised, Fields)
    /\ UNCHANGED fs

\* s.set_RHS(o.get_RHS()): RHS.__init__ keeps an ndarray as it is.
SetRHSArray(s, o) ==
    /\ ds[s] # None /\ ds[o] # None
    /\ LET c == set_RHS(ds, s, get_RHS(ds[o]))
       IN  /\ ds' = c.ds
           /\ last' = Event("set_RHS", ~c.raised, s, o,
                            [len |-> Len(get_RHS(ds[o]))])
           /\ same' = IF c.raised \/ o = s THEN same ELSE same \cup {"RHS"}
    /\ UNCHANGED fs

\* s.set_solutions(o.get_solutions()): solutions.__init__ keeps an ndarray.
SetSolutionsArray(s, o) ==
    /\ ds[s] # None /\ ds[o] # None
    /\ LET c == set_solutions(ds, s, get_solutions(ds[o]))
       IN  /\ ds' = c.ds
           /\ last' = Event("set_solutions", ~c.raised, s, o,
                            [len |-> Len(get_solutions(ds[o]))])
           /\ same' = IF c.raised \/ o = s THEN same ELSE same \cup {"solutions"}
    /\ UNCHANGED fs

\* s.get_RHS()[0][0] = v: get_RHS returns the array itself.
WriteRHS(s, v) ==
    /\ ds[s] # None /\ ds[Other(s)] # None
    /\ size(ds[s]) > 0
    /\ ds' = assign(ds, s, "RHS",
                    [get_RHS(ds[s]) EXCEPT ![1] = [@ EXCEPT ![1] = v]])
    /\ last' = Event("write_RHS", TRUE, s, NoSlot, [v |-> v])
    /\ UNCHANGED <<fs, same>>

\* s.get_solutions()[0] = v: get_solutions returns the array itself.
WriteSolutions(s, v) ==
    /\ ds[s] # None /\ ds[Other(s)] # None
    /\ size(ds[s]) > 0
    /\ ds' = assign(ds, s, "solutions", [get_solutions(ds[s]) EXCEPT ![1] = v])
    /\ last' = Event("write_solutions", TRUE, s, NoSlot, [v |-> v])
    /\ UNCHANGED <<fs, same>>

NextCopy ==
    \/ Copy("A", "B")
    \/ \E s \in Slots : CutAway(s, [num |-> 1, den |-> 2])
    \/ \E s \in Slots : Merge(s, Other(s))
    \/ \E s \in Slots, R \in RowLists(MaxSize) : SetRHS(s, R)
    \/ \E s \in Slots, S \in ValueLists(MaxSize) : SetSolutions(s, S)
    \/ \E s \in Slots : SetRHSArray(s, Other(s))
    \/ \E s \in Slots : SetSolutionsArray(s, Other(s))
    \/ \E s \in Slots : WriteRHS(s, WrittenCoefficient)
    \/ \E s \in Slots : WriteSolutions(s, WrittenSolution)

SpecCopy == InitCopy /\ [][NextCopy]_vars

\* The calls that change a dataset, and those that install an array of the
\* other dataset.
Mutators == {"cut", "merge", "set_RHS", "set_solutions", "write_RHS", "write_solutions"}
HandsOver(ev) == ev.op \in {"set_RHS", "set_solutions"} /\ ev.other \in Slots

\* C11 as stated: C = D.copy() has the content of D and shares nothing with
\* it, and every later cut, merge, set_RHS, set_solutions or in-place write
\* on one of the two leaves the rows and the solutions of the other unchanged.
C11_CopyIsIndependent ==
    [][ LET ev == last'
        IN  /\ (ev.op = "copy" /\ ev.ok) =>
                  /\ ds'[ev.other] = ds[ev.self]
                  /\ ds'[ev.self] = ds[ev.self]
                  /\ same' = {}
            /\ ev.op \in Mutators =>
                  ds'[Other(ev.self)] = ds[Other(ev.self)]
      ]_vars

\* C11 amended: C = D.copy() has the content of D and shares nothing with it;
\* while no array of one is installed in the other, every cut, merge,
\* set_RHS, set_solutions or in-place write on one of the two leaves the
\* other unchanged, and only a setter given an array of the other makes the
\* two share.
C11_CopyIsIndependentUntilHandOver ==
    [][ LET ev == last'
        IN  /\ (ev.op = "copy" /\ ev.ok) =>
                  /\ ds'[ev.other] = ds[ev.self]
                  /\ ds'[ev.self] = ds[ev.self]
                  /\ same' = {}
            /\ (ev.op \in Mutators /\ same = {}) =>
                  ds'[Other(ev.self)] = ds[Other(ev.self)]
            /\ (ev.op \in Mutators /\ same = {} /\ ~HandsOver(ev)) =>
                  same' = {}
      ]_vars

\* C11's case: after the copy, an in-place write to the rows of one dataset
\* has changed that dataset and not the other.
C11_Witness ==
    /\ last.op = "write_RHS"
    /\ same = {}
    /\ ds[Other(last.self)] # None
    /\ size(ds[Other(last.self)]) > 0
    /\ get_RHS(ds[last.self])[1][1] = WrittenCoefficient
    /\ get_RHS(ds[Other(last.self)])[1][1] # WrittenCoefficient

====
